---- MODULE Spec2Model ----
(***************************************************************************)
(* Assembly_Preprocessor (assembly_preprocessing.py): tokenizer,           *)
(* categorizer and aggregator of the assembly preprocessing pipeline.      *)
(*                                                                         *)
(* Text (a Python str) is a sequence of one-character strings, so that     *)
(* split, replace and += act on it as they do in the code.  A token, a     *)
(* mnemonic and a category name are texts; the empty str '' is <<>>.       *)
(* A Python list is a sequence, an insertion-ordered dict a sequence of    *)
(* its items.  Row entries, Python floats rounded to 2 decimals, are kept  *)
(* as integer hundredths (0.33 is 33).                                     *)
(***************************************************************************)
EXTENDS Integers, Sequences, FiniteSets, TLC

VARIABLES
    pc,                   \* which call of the preprocessor comes next
    assembly_functions,   \* argument of tokenize_instructions
    token_list,           \* the vocabulary
    tokenized_functions,  \* one token sequence per function
    instruction_glossary, \* [given, lines]: None, or the lines of the file
    default_glossary,     \* [categories, dictionary] of Assembly_Glossary
    token_dict,           \* the assignment: items (category, index) -> text
    token_occ,            \* raw counts of the functions aggregated so far
    DataFrame,            \* [columns, data] once assembly_dataframer returns
    outcome               \* "none", "returned" or the exception raised

vars == <<pc, assembly_functions, token_list, tokenized_functions,
          instruction_glossary, default_glossary, token_dict, token_occ,
          DataFrame, outcome>>

\* values of the variables a call has not set yet
NoGlossary  == [given |-> FALSE, lines |-> <<>>]
NoProvider  == [categories |-> <<>>, dictionary |-> <<>>]
NoDataFrame == [columns |-> <<>>, data |-> <<>>]

----------------------------------------------------------------------------
(* Generic helpers on sequences.                                           *)

Range(s) == {s[k] : k \in DOMAIN s}

RECURSIVE SumSeq(_)
SumSeq(s) == IF s = <<>> THEN 0 ELSE Head(s) + SumSeq(Tail(s))

RECURSIVE Flatten(_)
Flatten(ss) == IF ss = <<>> THEN <<>> ELSE Head(ss) \o Flatten(Tail(ss))

\* the sequences of n elements of S
SeqsOfLen(S, n) == [1..n -> S]

\* the ways of writing total as a sum of n naturals
Compositions(n, total) == {lens \in [1..n -> 0..total] : SumSeq(lens) = total}

\* flat cut into consecutive pieces of the given lengths
RECURSIVE Cut(_, _)
Cut(flat, lens) ==
    IF lens = <<>> THEN <<>>
    ELSE <<SubSeq(flat, 1, Head(lens))>>
             \o Cut(SubSeq(flat, Head(lens) + 1, Len(flat)), Tail(lens))

\* x is a list of at most maxlists sequences of elements of S, of at most
\* maxtotal elements together
IsListOfSeqs(x, S, maxlists, maxtotal) ==
    \E n \in 0..maxlists, total \in 0..maxtotal :
        \E lens \in Compositions(n, total), flat \in SeqsOfLen(S, total) :
            x = Cut(flat, lens)

NoDuplicates(s) == \A j, k \in DOMAIN s : s[j] = s[k] => j = k

\* position of the first occurrence of x in s (0 when absent)
FirstIndex(s, x) ==
    IF x \in Range(s) THEN CHOOSE k \in DOMAIN s : s[k] = x /\ \A j \in 1..(k - 1) : s[j] # x
    ELSE 0

Count(s, x) == Cardinality({k \in DOMAIN s : s[k] = x})

Abs(n) == IF n < 0 THEN 0 - n ELSE n

----------------------------------------------------------------------------
(* str operations                                                          *)

\* s.split(sep) for a one-character separator
RECURSIVE Split(_, _)
Split(s, sep) ==
    LET p == FirstIndex(s, sep)
    IN  IF p = 0 THEN <<s>>
        ELSE <<SubSeq(s, 1, p - 1)>> \o Split(SubSeq(s, p + 1, Len(s)), sep)

\* s.replace(ch, "")
RECURSIVE Remove(_, _)
Remove(s, ch) ==
    IF s = <<>> THEN <<>>
    ELSE IF Head(s) = ch THEN Remove(Tail(s), ch)
    ELSE <<Head(s)>> \o Remove(Tail(s), ch)

----------------------------------------------------------------------------
(* tokenize_instructions                                                   *)

Quote == "'"
Space == " "

\* (instruction.split(" "))[0]
Command(instruction) == Split(instruction, Space)[1]

\* command not in ["[", "]", ","]
Kept(command) == command \notin {<<"[">>, <<"]">>, <<",">>}

\* faulty variant: appends without the membership test
AlwaysAppend(tokens, command) == Append(tokens, command)

\* if command not in token_list: token_list.append(command)
AddToVocabulary(tokens, command) ==
    IF command \in Range(tokens) THEN tokens ELSE Append(tokens, command)

\* the loop over function.split("'"): acc = [token_list, tokens]
RECURSIVE ScanInstructions(_, _, _)
ScanInstructions(fragments, k, acc) ==
    IF k > Len(fragments) THEN acc
    ELSE LET command == Command(fragments[k])
         IN  IF Kept(command)
             THEN ScanInstructions(fragments, k + 1,
                      [token_list |-> AddToVocabulary(acc.token_list, command),
                       tokens     |-> Append(acc.tokens, command)])
             ELSE ScanInstructions(fragments, k + 1, acc)

\* the loop over the functions: acc = [token_list, tokenized_functions]
RECURSIVE ScanFunctions(_, _, _)
ScanFunctions(functions, k, acc) ==
    IF k > Len(functions) THEN acc
    ELSE LET r == ScanInstructions(Split(functions[k], Quote), 1,
                      [token_list |-> acc.token_list, tokens |-> <<>>])
         IN  ScanFunctions(functions, k + 1,
                 [token_list          |-> r.token_list,
                  tokenized_functions |-> Append(acc.tokenized_functions, r.tokens)])

tokenize_instructions(functions) ==
    ScanFunctions(functions, 1, [token_list |-> <<>>, tokenized_functions |-> <<>>])

----------------------------------------------------------------------------
(* Bounds and inputs of the tokenizer.                                     *)

MaxFuns  == 2      \* functions in one call of tokenize_instructions
MaxChars == 4      \* characters of all the functions of one call together

Alphabet == {Quote, Space, "[", "]", ",", "a"}

InitTok ==
    /\ pc = "tokenize"
    /\ IsListOfSeqs(assembly_functions, Alphabet, MaxFuns, MaxChars)
    /\ token_list = <<>>
    /\ tokenized_functions = <<>>
    /\ instruction_glossary = NoGlossary
    /\ default_glossary = NoProvider
    /\ token_dict = <<>>
    /\ token_occ = <<>>
    /\ DataFrame = NoDataFrame
    /\ outcome = "none"

TokenizeInstructions ==
    /\ pc = "tokenize"
    /\ \E r \in {tokenize_instructions(assembly_functions)} :
           /\ token_list' = r.token_list
           /\ tokenized_functions' = r.tokenized_functions
    /\ pc' = "tokenized"
    /\ UNCHANGED <<assembly_functions, instruction_glossary, default_glossary,
                   token_dict, token_occ, DataFrame, outcome>>

NextTok == TokenizeInstructions

SpecTok == InitTok /\ [][NextTok]_vars

----------------------------------------------------------------------------
(* token_categorizer                                                       *)

Newline == "\n"

\* token_dict[(category, index)] += text on a defaultdict(str): an existing
\* key keeps its place and has text appended to its value, a new key is
\* inserted last with value '' + text
DictAdd(td, category, index, text) ==
    IF \E k \in DOMAIN td : td[k].category = category /\ td[k].index = index
    THEN [k \in DOMAIN td |->
             IF td[k].category = category /\ td[k].index = index
             THEN [td[k] EXCEPT !.value = @ \o text]
             ELSE td[k]]
    ELSE Append(td, [category |-> category, index |-> index, value |-> text])

\* File mode, the loop over the lines: st = [token_dict, features, f_i, e_i].
\* features[f_i] of the code (0-based) is features[f_i + 1] here.
RECURSIVE ScanLines(_, _, _, _, _)
ScanLines(lines, special_char, vocabulary, k, st) ==
    IF k > Len(lines) THEN st
    ELSE LET element == lines[k]
         IN  IF special_char \in Range(element)
             THEN LET name == Remove(Remove(element, special_char), Newline)
                      features == Append(st.features, name)
                  IN  ScanLines(lines, special_char, vocabulary, k + 1,
                          [token_dict |-> DictAdd(st.token_dict, features[st.f_i + 1], 0, <<>>),
                           features   |-> features,
                           f_i        |-> st.f_i + 1,
                           e_i        |-> 0])
             ELSE LET mnemonic == Remove(Remove(element, Space), Newline)
                  IN  IF mnemonic \in Range(vocabulary)
                      THEN ScanLines(lines, special_char, vocabulary, k + 1,
                               [st EXCEPT
                                  !.token_dict = DictAdd(@, st.features[st.f_i], st.e_i, mnemonic),
                                  !.e_i = @ + 1])
                      ELSE ScanLines(lines, special_char, vocabulary, k + 1, st)

\* File mode: lines[0][0] raises IndexError on a file without lines.  The
\* warning printed at the end changes no state and is left out.
CategorizeFile(vocabulary, lines) ==
    IF lines = <<>> THEN [outcome |-> "IndexError", token_dict |-> <<>>]
    ELSE [outcome    |-> "returned",
          token_dict |-> ScanLines(lines, lines[1][1], vocabulary, 1,
                             [token_dict |-> <<>>, features |-> <<>>,
                              f_i |-> 0, e_i |-> 0]).token_dict]

\* Default mode, the loop over default_dict.items(): st = [token_dict, f_i,
\* e_i, error].  An item is [category, mnemonic]: item[0][0] and item[1].
RECURSIVE ScanDictionary(_, _, _, _, _)
ScanDictionary(dictionary, features, vocabulary, k, st) ==
    IF k > Len(dictionary) \/ st.error THEN st
    ELSE LET item == dictionary[k]
             advance == item.category # features[st.f_i + 1]
         IN  IF advance /\ st.f_i + 2 > Len(features)
             THEN [st EXCEPT !.error = TRUE]
             ELSE LET opened == IF advance
                                THEN [token_dict |-> DictAdd(st.token_dict,
                                                        features[st.f_i + 2], 0, <<>>),
                                      f_i |-> st.f_i + 1, e_i |-> 0, error |-> FALSE]
                                ELSE st
                  IN  IF item.mnemonic \in Range(vocabulary)
                      THEN ScanDictionary(dictionary, features, vocabulary, k + 1,
                               [opened EXCEPT
                                  !.token_dict = DictAdd(@, features[opened.f_i + 1],
                                                         opened.e_i, item.mnemonic),
                                  !.e_i = @ + 1])
                      ELSE ScanDictionary(dictionary, features, vocabulary, k + 1, opened)

\* Default mode: features[0] raises IndexError on a provider without
\* categories, features[f_i+1] when the pairs name more categories than that.
CategorizeDefault(vocabulary, provider) ==
    IF provider.categories = <<>> THEN [outcome |-> "IndexError", token_dict |-> <<>>]
    ELSE LET st == ScanDictionary(provider.dictionary, provider.categories, vocabulary, 1,
                       [token_dict |-> DictAdd(<<>>, provider.categories[1], 0, <<>>),
                        f_i |-> 0, e_i |-> 0, error |-> FALSE])
         IN  IF st.error THEN [outcome |-> "IndexError", token_dict |-> <<>>]
             ELSE [outcome |-> "returned", token_dict |-> st.token_dict]

token_categorizer(vocabulary, glossary, provider) ==
    IF glossary.given THEN CategorizeFile(vocabulary, glossary.lines)
    ELSE CategorizeDefault(vocabulary, provider)

----------------------------------------------------------------------------
(* assembly_dataframer                                                     *)

\* faulty variant: one column per key
AppendEveryKey(categories, category) == Append(categories, category)

\* if item[0][0] not in categories: categories.append(item[0][0])
AddCategory(categories, category) ==
    IF category \in Range(categories) THEN categories ELSE Append(categories, category)

\* the loop that collects the column names
RECURSIVE Categories(_)
Categories(td) ==
    IF td = <<>> THEN <<>>
    ELSE LET before == Categories(SubSeq(td, 1, Len(td) - 1))
         IN  AddCategory(before, td[Len(td)].category)

\* faulty variant: no duplicate control
NeverScored(duplicate_control, value) == FALSE

\* if item[1] in duplicate_control: continue
Scored(duplicate_control, value) == value \in Range(duplicate_control)

\* The loop over token_dictionary.items() for one function:
\* st = [i, duplicate_control, token_occ, error], i 0-based as in the code.
\* categories[i] and token_occ[i] raise IndexError once i = len(categories).
RECURSIVE ScanItems(_, _, _, _, _)
ScanItems(function, td, categories, k, st) ==
    IF k > Len(td) \/ st.error THEN st
    ELSE IF st.i >= Len(categories) THEN [st EXCEPT !.error = TRUE]
    ELSE LET item == td[k]
             i == IF categories[st.i + 1] # item.category THEN st.i + 1 ELSE st.i
         IN  IF item.value \in Range(function)
             THEN IF Scored(st.duplicate_control, item.value)
                  THEN ScanItems(function, td, categories, k + 1, [st EXCEPT !.i = i])
                  ELSE IF i >= Len(categories)
                  THEN [st EXCEPT !.i = i, !.error = TRUE]
                  ELSE ScanItems(function, td, categories, k + 1,
                           [i                 |-> i,
                            duplicate_control |-> Append(st.duplicate_control, item.value),
                            token_occ         |-> [st.token_occ EXCEPT
                                                     ![i + 1] = @ + Count(function, item.value)],
                            error             |-> FALSE])
             ELSE ScanItems(function, td, categories, k + 1, [st EXCEPT !.i = i])

\* faulty variant: truncates instead of rounding
Round2Truncating(count, total) == (100 * count) \div total

\* round(count / total, 2) in hundredths, for 0 <= count <= total, total > 0.
\* Python rounds the double nearest to count/total to the nearest hundredth,
\* ties to even.  A quotient halfway between two hundredths is an odd
\* multiple of 1/200; its double is exact, and the tie real, when total
\* divides 8 * count (0.125, 0.375, 0.625, 0.875).  The other halfway
\* quotients need total >= 40, beyond the function lengths used here.
Round2(count, total) ==
    LET q == (100 * count) \div total
        r == (100 * count) % total
    IN  IF 2 * r < total THEN q
        ELSE IF 2 * r > total THEN q + 1
        ELSE IF q % 2 = 0 THEN q ELSE q + 1

\* faulty variant: a row of zeros when the counts sum to 0
ZeroRowWhenNoTokens(occ) ==
    IF SumSeq(occ) = 0
    THEN [error |-> FALSE, row |-> [c \in DOMAIN occ |-> 0]]
    ELSE [error |-> FALSE, row |-> [c \in DOMAIN occ |-> Round2(occ[c], SumSeq(occ))]]

\* percentage_calc[i] = round(token_occ[i]/sum(token_occ), 2) for every i:
\* no division with no category, ZeroDivisionError when the counts sum to 0
Percentages(occ) ==
    IF occ = <<>> THEN [error |-> FALSE, row |-> <<>>]
    ELSE IF SumSeq(occ) = 0 THEN [error |-> TRUE, row |-> <<>>]
    ELSE [error |-> FALSE, row |-> [c \in DOMAIN occ |-> Round2(occ[c], SumSeq(occ))]]

\* The loop over the functions: acc = [outcome, data, token_occ].  token_occ
\* keeps the raw counts of every function whose items were all scanned.
RECURSIVE AggregateFunctions(_, _, _, _, _)
AggregateFunctions(functions, td, categories, n, acc) ==
    IF n > Len(functions) \/ acc.outcome # "returned" THEN acc
    ELSE LET st == ScanItems(functions[n], td, categories, 1,
                       [i |-> 0, duplicate_control |-> <<>>,
                        token_occ |-> [c \in DOMAIN categories |-> 0],
                        error |-> FALSE])
             pct == Percentages(st.token_occ)
         IN  IF st.error THEN [acc EXCEPT !.outcome = "IndexError"]
             ELSE IF pct.error
             THEN [acc EXCEPT !.outcome = "ZeroDivisionError",
                              !.token_occ = Append(@, st.token_occ)]
             ELSE AggregateFunctions(functions, td, categories, n + 1,
                      [acc EXCEPT !.data = Append(@, pct.row),
                                  !.token_occ = Append(@, st.token_occ)])

\* pd.DataFrame(data=percentage_list, columns=categories), or the exception
assembly_dataframer(functions, td) ==
    LET categories == Categories(td)
        r == AggregateFunctions(functions, td, categories, 1,
                 [outcome |-> "returned", data |-> <<>>, token_occ |-> <<>>])
    IN  [outcome   |-> r.outcome,
         token_occ |-> r.token_occ,
         DataFrame |-> IF r.outcome = "returned"
                       THEN [columns |-> categories, data |-> r.data]
                       ELSE NoDataFrame]

----------------------------------------------------------------------------
(* Calls of token_categorizer and assembly_dataframer.                     *)

TokenCategorizerFile ==
    /\ pc = "categorize"
    /\ instruction_glossary.given
    /\ \E r \in {token_categorizer(token_list, instruction_glossary, default_glossary)} :
           /\ token_dict' = r.token_dict
           /\ outcome' = IF r.outcome = "returned" THEN "none" ELSE r.outcome
           /\ pc' = IF r.outcome = "returned" THEN "dataframe" ELSE "raised"
    /\ UNCHANGED <<assembly_functions, token_list, tokenized_functions,
                   instruction_glossary, default_glossary, token_occ, DataFrame>>

TokenCategorizerDefault ==
    /\ pc = "categorize"
    /\ ~instruction_glossary.given
    /\ \E r \in {token_categorizer(token_list, instruction_glossary, default_glossary)} :
           /\ token_dict' = r.token_dict
           /\ outcome' = IF r.outcome = "returned" THEN "none" ELSE r.outcome
           /\ pc' = IF r.outcome = "returned" THEN "dataframe" ELSE "raised"
    /\ UNCHANGED <<assembly_functions, token_list, tokenized_functions,
                   instruction_glossary, default_glossary, token_occ, DataFrame>>

AssemblyDataframer ==
    /\ pc = "dataframe"
    /\ \E r \in {assembly_dataframer(tokenized_functions, token_dict)} :
           /\ DataFrame' = r.DataFrame
           /\ token_occ' = r.token_occ
           /\ outcome' = r.outcome
    /\ pc' = "done"
    /\ UNCHANGED <<assembly_functions, token_list, tokenized_functions,
                   instruction_glossary, default_glossary, token_dict>>

----------------------------------------------------------------------------
(* Names used by the inputs.                                               *)

CategoryLetters == <<"A", "B", "C", "D", "E", "F">>
MnemonicLetters == <<"a", "b", "c", "d", "e", "f">>
CategoryName(c) == <<CategoryLetters[c]>>
Mnemonic(m) == <<MnemonicLetters[m]>>

\* the vocabulary tokenize_instructions builds for these token sequences
RECURSIVE VocabularyOf(_)
VocabularyOf(tokens) ==
    IF tokens = <<>> THEN <<>>
    ELSE AddToVocabulary(VocabularyOf(SubSeq(tokens, 1, Len(tokens) - 1)),
                         tokens[Len(tokens)])

----------------------------------------------------------------------------
(* SpecCat: token_categorizer, then assembly_dataframer on what it         *)
(* returned, as complete_preprocessing chains them.                        *)

MaxLines     == 6   \* lines of a glossary file
MaxCatFuns   == 1   \* token sequences
MaxCatTokens == 2   \* tokens of all the sequences together
MaxProviderCategories == 3   \* categories of the default glossary
MaxPairs     == 2   \* pairs of one category of the default glossary

CatTokens == {<<>>, Mnemonic(1), Mnemonic(2)}

\* "*A*\n", "*B*\n", "*C*\n", "a\n", " b\n"
GlossaryLines ==
    {<<"*", CategoryLetters[c], "*", Newline>> : c \in 1..3}
        \cup {Mnemonic(1) \o <<Newline>>, <<Space>> \o Mnemonic(2) \o <<Newline>>}

\* Assembly_Glossary: getCategories() is a list of distinct names and
\* getDictionary() lists the pairs category by category, in that order; a
\* category may have no pair.  lens[c] is the number of pairs of category c,
\* flat the mnemonics of all the pairs.
RECURSIVE CategoryOfPair(_, _)
CategoryOfPair(lens, k) ==
    IF k <= Head(lens) THEN 1 ELSE 1 + CategoryOfPair(Tail(lens), k - Head(lens))

Provider(lens, flat) ==
    [categories |-> [c \in DOMAIN lens |-> CategoryName(c)],
     dictionary |-> [k \in DOMAIN flat |->
                        [category |-> CategoryName(CategoryOfPair(lens, k)),
                         mnemonic |-> flat[k]]]]

IsProvider(x, maxcategories, maxpairs) ==
    \E n \in 0..maxcategories :
        \E lens \in [1..n -> 0..maxpairs] :
            \E flat \in SeqsOfLen({Mnemonic(1), Mnemonic(2)}, SumSeq(lens)) :
                x = Provider(lens, flat)

InitCat ==
    /\ pc = "categorize"
    /\ assembly_functions = <<>>
    /\ IsListOfSeqs(tokenized_functions, CatTokens, MaxCatFuns, MaxCatTokens)
    /\ token_list = VocabularyOf(Flatten(tokenized_functions))
    /\ \/ /\ \E n \in 0..MaxLines : \E ls \in SeqsOfLen(GlossaryLines, n) :
                 instruction_glossary = [given |-> TRUE, lines |-> ls]
          /\ default_glossary = NoProvider
       \/ /\ instruction_glossary = NoGlossary
          /\ IsProvider(default_glossary, MaxProviderCategories, MaxPairs)
    /\ token_dict = <<>>
    /\ token_occ = <<>>
    /\ DataFrame = NoDataFrame
    /\ outcome = "none"

NextCat == TokenCategorizerFile \/ TokenCategorizerDefault \/ AssemblyDataframer

SpecCat == InitCat /\ [][NextCat]_vars

----------------------------------------------------------------------------
(* SpecAgg: assembly_dataframer called with any assignment.                *)

MaxSlots     == 3   \* items of the assignment
MaxSize      == 4   \* items of the assignment and tokens together
MaxAggFuns   == 2   \* token sequences
MaxRowCategories == 4   \* categories, one mnemonic each
MaxRowTokens == 8   \* tokens of the one function aggregated over them

AggTokens == {<<>>, Mnemonic(1), Mnemonic(2)}
AggCategories == {CategoryName(1), CategoryName(2), CategoryName(3)}

\* the items of a dict with these (category, value) pairs in this order:
\* the index of a key counts the earlier keys of its category
Indexed(slots) ==
    [k \in DOMAIN slots |->
        [category |-> slots[k][1],
         index    |-> Cardinality({j \in 1..(k - 1) : slots[j][1] = slots[k][1]}),
         value    |-> slots[k][2]]]

\* m1 ... m1 m2 ... m2 ..., counts[c] times the mnemonic of category c
RECURSIVE Runs(_, _)
Runs(counts, c) ==
    IF c > Len(counts) THEN <<>>
    ELSE [k \in 1..counts[c] |-> Mnemonic(c)] \o Runs(counts, c + 1)

InitAggAny ==
    \E s \in 0..MaxSlots :
        /\ \E q \in SeqsOfLen(AggCategories \X AggTokens, s) : token_dict = Indexed(q)
        /\ IsListOfSeqs(tokenized_functions, AggTokens, MaxAggFuns, MaxSize - s)

InitAggRow ==
    \E k \in 1..MaxRowCategories :
        /\ token_dict = [c \in 1..k |->
               [category |-> CategoryName(c), index |-> 0, value |-> Mnemonic(c)]]
        /\ \E counts \in [1..k -> 0..MaxRowTokens] :
               /\ SumSeq(counts) <= MaxRowTokens
               /\ tokenized_functions = <<Runs(counts, 1)>>

InitAgg ==
    /\ pc = "dataframe"
    /\ assembly_functions = <<>>
    /\ InitAggAny \/ InitAggRow
    /\ token_list = VocabularyOf(Flatten(tokenized_functions))
    /\ instruction_glossary = NoGlossary
    /\ default_glossary = NoProvider
    /\ token_occ = <<>>
    /\ DataFrame = NoDataFrame
    /\ outcome = "none"

NextAgg == AssemblyDataframer

SpecAgg == InitAgg /\ [][NextAgg]_vars

----------------------------------------------------------------------------
(* Claims about tokenize_instructions (SpecTok).                           *)

AllTokens == Flatten(tokenized_functions)

Fragments(function) == Split(function, Quote)

\* the commands of the fragments of a function, left to right
Commands(function) ==
    [k \in 1..Len(Fragments(function)) |-> Command(Fragments(function)[k])]

IsNoise(command) == command \in {<<"[">>, <<"]">>, <<",">>}
NotNoise(command) == ~IsNoise(command)

\* the commands of the fragments of a function that are not empty
CommandsOfNonEmpty(function) ==
    LET NonEmpty(fragment) == fragment # <<>>
        First(fragment) == Command(fragment)
        kept == SelectSeq(Fragments(function), NonEmpty)
    IN  SelectSeq([k \in 1..Len(kept) |-> First(kept[k])], NotNoise)

\* C4: an empty Function string yields an empty TokenSequence and adds
\* nothing to the Vocabulary, and an empty fragment between two ' delimiters
\* produces no token: every token sequence holds the commands of the
\* non-empty fragments only, and the Vocabulary holds only those.
C4_EmptyFragmentYieldsNoToken ==
    pc = "tokenized" =>
        /\ \A i \in DOMAIN assembly_functions :
              /\ assembly_functions[i] = <<>> => tokenized_functions[i] = <<>>
              /\ tokenized_functions[i] = CommandsOfNonEmpty(assembly_functions[i])
        /\ Range(token_list) =
              UNION {Range(CommandsOfNonEmpty(assembly_functions[i])) :
                         i \in DOMAIN assembly_functions}

\* C5: the Vocabulary has no duplicates, holds exactly the tokens of the
\* returned TokenSequences, in the order of their first occurrence (functions
\* in input order, fragments left to right), and no token of a TokenSequence
\* or of the Vocabulary is "[", "]" or ",".
C5_VocabularyFirstSeen ==
    pc = "tokenized" =>
        /\ Len(tokenized_functions) = Len(assembly_functions)
        /\ \A i \in DOMAIN assembly_functions :
              tokenized_functions[i] = SelectSeq(Commands(assembly_functions[i]), NotNoise)
        /\ NoDuplicates(token_list)
        /\ Range(token_list) = Range(AllTokens)
        /\ \A j, k \in DOMAIN token_list :
              j < k => FirstIndex(AllTokens, token_list[j]) < FirstIndex(AllTokens, token_list[k])
        /\ \A token \in Range(AllTokens) \cup Range(token_list) : NotNoise(token)

\* two functions, a token seen twice, a second token seen later, and a
\* discarded fragment
C5_Witness ==
    /\ pc = "tokenized"
    /\ Len(assembly_functions) = 2
    /\ Len(token_list) >= 2
    /\ Len(AllTokens) > Len(token_list)
    /\ \E i \in DOMAIN assembly_functions :
          Len(tokenized_functions[i]) < Len(Fragments(assembly_functions[i]))

----------------------------------------------------------------------------
(* Claims about assembly_dataframer (SpecAgg).                             *)

Columns == Categories(token_dict)

\* the keys of each category are consecutive items of the assignment
KeysGrouped(td) ==
    \A j, k \in DOMAIN td :
        (j < k /\ td[j].category = td[k].category) =>
            \A m \in j..k : td[m].category = td[j].category

\* the texts held by the slots of a category
Held(td, category) == {td[k].value : k \in {j \in DOMAIN td : td[j].category = category}}

\* no token of the function equals the text of any slot
NoCategorizedToken(function, td) ==
    \A p \in DOMAIN function, k \in DOMAIN td : function[p] # td[k].value

\* per column, the positions of the function whose token is held by a slot,
\* the first slot holding it being one of that column's category
FirstHolderCounts(function, td) ==
    [c \in DOMAIN Categories(td) |->
        Cardinality({p \in DOMAIN function :
            \E k \in DOMAIN td :
                /\ td[k].value = function[p]
                /\ td[k].category = Categories(td)[c]
                /\ \A j \in 1..(k - 1) : td[j].value # function[p]})]

\* per column, the positions of the function whose token is held by a slot
\* of that column's category
HolderCounts(function, td) ==
    [c \in DOMAIN Categories(td) |->
        Cardinality({p \in DOMAIN function :
            function[p] \in Held(td, Categories(td)[c])})]

RowSum(n) == SumSeq(DataFrame.data[n])

\* C1 as stated: every returned row of a function with a categorized token
\* sums to 1.00 +/- 0.01, for any number of categories and any counts.
C1_RowSumWithinOneHundredth ==
    (pc = "done" /\ outcome = "returned") =>
        \A n \in DOMAIN DataFrame.data :
            SumSeq(token_occ[n]) > 0 => Abs(RowSum(n) - 100) <= 1

\* C1 amended: every returned row of a function with a categorized token
\* sums to 1.00 within 0.005 per category, hence within 0.01 when the table
\* has at most 3 categories.
C1_RowSumWithinHalfPerCategory ==
    (pc = "done" /\ outcome = "returned") =>
        \A n \in DOMAIN DataFrame.data :
            SumSeq(token_occ[n]) > 0 =>
                /\ 2 * Abs(RowSum(n) - 100) <= Len(DataFrame.columns)
                /\ Len(DataFrame.columns) <= 3 => Abs(RowSum(n) - 100) <= 1

\* a row over 3 categories whose rounded entries do not sum to 1.00
C1_Witness ==
    /\ pc = "done"
    /\ outcome = "returned"
    /\ Len(DataFrame.columns) = 3
    /\ \E n \in DOMAIN DataFrame.data : SumSeq(token_occ[n]) > 0 /\ RowSum(n) # 100

\* C3 as stated: whenever some function has no categorized token,
\* assembly_dataframer raises and returns no table, for every assignment,
\* also one without categories.
C3_NoCategorizedTokenRaises ==
    (pc = "done" /\ \E n \in DOMAIN tokenized_functions :
                        NoCategorizedToken(tokenized_functions[n], token_dict)) =>
        /\ outcome # "returned"
        /\ DataFrame = NoDataFrame

\* C3 amended: whenever the assignment has at least one category and some
\* function has no categorized token, assembly_dataframer raises (the
\* ZeroDivisionError of the normalisation when the keys are grouped by
\* category) and returns no table; with no category at all it returns a
\* table of empty rows.
C3_NoCategorizedTokenRaisesGivenCategory ==
    (pc = "done" /\ \E n \in DOMAIN tokenized_functions :
                        NoCategorizedToken(tokenized_functions[n], token_dict)) =>
        IF token_dict = <<>>
        THEN /\ outcome = "returned"
             /\ DataFrame = [columns |-> <<>>,
                             data |-> [n \in DOMAIN tokenized_functions |-> <<>>]]
        ELSE /\ outcome \in {"ZeroDivisionError", "IndexError"}
             /\ KeysGrouped(token_dict) => outcome = "ZeroDivisionError"
             /\ DataFrame = NoDataFrame

\* the second function has no categorized token, the first one has
C3_Witness ==
    /\ pc = "done"
    /\ outcome = "ZeroDivisionError"
    /\ Len(tokenized_functions) = 2
    /\ Len(token_occ) = 2
    /\ SumSeq(token_occ[1]) > 0
    /\ NoCategorizedToken(tokenized_functions[2], token_dict)

\* C7: a returned table has one row per token sequence, in input order, and
\* one column per distinct category of the assignment, in the order in which
\* the categories first occur among its keys, whatever the functions are.
C7_TableShape ==
    (pc = "done" /\ outcome = "returned") =>
        /\ Len(DataFrame.data) = Len(tokenized_functions)
        /\ \A n \in DOMAIN DataFrame.data : Len(DataFrame.data[n]) = Len(DataFrame.columns)
        /\ NoDuplicates(DataFrame.columns)
        /\ Range(DataFrame.columns) = {token_dict[k].category : k \in DOMAIN token_dict}
        /\ \A c, d \in DOMAIN DataFrame.columns :
              c < d =>
                  (CHOOSE k \in DOMAIN token_dict :
                       /\ token_dict[k].category = DataFrame.columns[c]
                       /\ \A j \in 1..(k - 1) : token_dict[j].category # DataFrame.columns[c])
                  < (CHOOSE k \in DOMAIN token_dict :
                       /\ token_dict[k].category = DataFrame.columns[d]
                       /\ \A j \in 1..(k - 1) : token_dict[j].category # DataFrame.columns[d])
        /\ KeysGrouped(token_dict) =>
              \A n \in DOMAIN DataFrame.data :
                  LET counts == FirstHolderCounts(tokenized_functions[n], token_dict)
                  IN  \/ DataFrame.data[n] = <<>>
                      \/ /\ SumSeq(counts) > 0
                         /\ DataFrame.data[n] =
                                [c \in DOMAIN counts |-> Round2(counts[c], SumSeq(counts))]

\* two functions with different rows over two categories
C7_Witness ==
    /\ pc = "done"
    /\ outcome = "returned"
    /\ Len(DataFrame.data) = 2
    /\ DataFrame.data[1] # DataFrame.data[2]
    /\ Len(DataFrame.columns) = 2

\* some mnemonic is held by slots of two categories
HeldTwice(td, value) ==
    /\ value # <<>>
    /\ \E j, k \in DOMAIN td :
          td[j].value = value /\ td[k].value = value /\ td[j].category # td[k].category

\* C9 as stated: a mnemonic held by slots of more than one category is
\* double-counted: every category holding it has all its instances in a
\* function added to its raw count.
C9_DoubleCounted ==
    (pc = "done" /\ KeysGrouped(token_dict)) =>
        \A n \in DOMAIN token_occ, c \in DOMAIN Columns :
            \A value \in Held(token_dict, Columns[c]) :
                HeldTwice(token_dict, value) =>
                    token_occ[n][c] >= Count(tokenized_functions[n], value)

\* C9 amended: with the keys grouped by category, a mnemonic held by slots
\* of more than one category is counted once: all its instances in a function
\* are added to the raw count of the category of the first slot holding it,
\* and to no other category's.
C9_CountedForFirstHolder ==
    (pc = "done" /\ KeysGrouped(token_dict)) =>
        /\ outcome # "IndexError"
        /\ \A n \in DOMAIN token_occ :
              token_occ[n] = FirstHolderCounts(tokenized_functions[n], token_dict)

\* a function with two instances of a mnemonic that two categories hold
C9_Witness ==
    /\ pc = "done"
    /\ outcome = "returned"
    /\ KeysGrouped(token_dict)
    /\ \E n \in DOMAIN tokenized_functions, value \in Range(Flatten(tokenized_functions)) :
          /\ HeldTwice(token_dict, value)
          /\ Count(tokenized_functions[n], value) = 2

----------------------------------------------------------------------------
(* Claims about token_categorizer and the aggregation of what it returns   *)
(* (SpecCat).                                                              *)

Categorized == pc \in {"dataframe", "done"}

\* the mnemonics the glossary lists under some category: the stripped lines
\* without the marker character, or the mnemonics of the provider's pairs
Listed(token) ==
    IF instruction_glossary.given
    THEN \E k \in DOMAIN instruction_glossary.lines :
            LET line == instruction_glossary.lines[k]
            IN  /\ instruction_glossary.lines[1][1] \notin Range(line)
                /\ token = Remove(Remove(line, Space), Newline)
    ELSE \E k \in DOMAIN default_glossary.dictionary :
            token = default_glossary.dictionary[k].mnemonic

\* the raw counts the item loop leaves for a function
RawCounts(function, td) ==
    ScanItems(function, td, Categories(td), 1,
        [i |-> 0, duplicate_control |-> <<>>,
         token_occ |-> [c \in DOMAIN Categories(td) |-> 0],
         error |-> FALSE]).token_occ

\* C2: a vocabulary token listed under no category of the glossary, the
\* empty token included, is held by no slot and adds nothing to any raw
\* count: without its instances every function has the same raw counts.
C2_UnlistedTokensCountNothing ==
    Categorized =>
        /\ \A token \in Range(token_list) :
              (token # <<>> /\ ~Listed(token)) =>
                  \A k \in DOMAIN token_dict : token_dict[k].value # token
        /\ pc = "done" =>
              \A n \in DOMAIN token_occ :
                  token_occ[n] =
                      RawCounts(SelectSeq(tokenized_functions[n], Listed), token_dict)

\* no mnemonic is held by slots of two categories
Exclusive(td) ==
    \A j, k \in DOMAIN td :
        (td[j].value = td[k].value /\ td[j].value # <<>>) => td[j].category = td[k].category

\* C6: for an assignment token_categorizer returned, in which each mnemonic
\* is held by at most one category, and token sequences without the empty
\* token, the raw count of a category is the number of positions of the
\* function whose token that category holds, and the row entry is that count
\* over the sum of the counts, rounded to 2 decimals.
C6_CountsPerHoldingCategory ==
    (/\ pc = "done"
     /\ Exclusive(token_dict)
     /\ <<>> \notin Range(Flatten(tokenized_functions))) =>
        \A n \in DOMAIN token_occ :
            LET counts == HolderCounts(tokenized_functions[n], token_dict)
            IN  /\ token_occ[n] = counts
                /\ n \in DOMAIN DataFrame.data =>
                      DataFrame.data[n] =
                          [c \in DOMAIN counts |-> Round2(counts[c], SumSeq(counts))]

\* C8: in default mode the returned assignment has a slot at position 0 for
\* every category of the provider, in the provider's order, so that every
\* provider category is an output column.
C8_EveryProviderCategoryHasSlot ==
    (Categorized /\ ~instruction_glossary.given) =>
        /\ \A c \in DOMAIN default_glossary.categories :
              \E k \in DOMAIN token_dict :
                  /\ token_dict[k].category = default_glossary.categories[c]
                  /\ token_dict[k].index = 0
        /\ Categories(token_dict) = default_glossary.categories

\* C10: after a glossary file is scanned, every slot holds the empty
\* placeholder or exactly one mnemonic of the vocabulary, and the positions
\* of each category are 0, 1, 2, ... without a gap.
C10_SlotsHoldOneMnemonic ==
    (Categorized /\ instruction_glossary.given) =>
        \A k \in DOMAIN token_dict :
            /\ token_dict[k].value = <<>> \/ token_dict[k].value \in Range(token_list)
            /\ \A below \in 0..(token_dict[k].index - 1) :
                  \E j \in DOMAIN token_dict :
                      /\ token_dict[j].category = token_dict[k].category
                      /\ token_dict[j].index = below

====
